---- MODULE Spec2Model ----
(***************************************************************************)
(* Model of the interactive FHIR client: the menu loop of workflow.py, its *)
(* four operations, the gateway functions of base.py and the resource      *)
(* builders of patient.py and coverage.py.                                 *)
(*                                                                         *)
(* Text typed by the operator is a sequence of one-character strings, so   *)
(* that strip(), lower(), upper(), len() and isdigit() are computed.  A    *)
(* literal the program itself produces ("male", "insurance", ...) is the   *)
(* one-chunk sequence <<"male">>.  Python's None is the value None below.  *)
(* An optional object (a list field of a resource, a Period) is a sequence *)
(* of length 0 or 1.                                                       *)
(***************************************************************************)
EXTENDS Integers, Sequences, FiniteSets, TLC

VARIABLES
    pc,                  \* position of the program
    op,                  \* the menu operation being run
    asked,               \* the prompt the operator answered last, and the text typed
    rejected,            \* the last prompt answered printed "invalid" and asks again
    calls,               \* gateway calls issued by the current operation, in order
    response,            \* the HTTP response the last gateway call received
    patient_dni,         \* workflow.py: patient_dni / search_dni
    existing_resources,  \* workflow.py: existing_resources / patient_resources / resources
    patient_id,          \* workflow.py: patient_id
    coverage_resources,  \* workflow.py: coverage_resources
    edited_coverage_id,  \* workflow.py: edited_coverage_id
    input_choice,        \* workflow.py: input_choice (line 150)
    delete_choice,       \* workflow.py: delete_choice (line 287)
    coverage_choice,     \* workflow.py: choice (line 275), the answer to the selection
    fields,              \* the values the data-entry prompts returned
    sent,                \* the resource handed to the last create or update
    server_patients      \* during create_or_edit_patient, from its lookup on: how many
                         \* Patients the server holds under patient_dni

vars == <<pc, op, asked, rejected, calls, response, patient_dni, existing_resources,
          patient_id, coverage_resources, edited_coverage_id, input_choice,
          delete_choice, coverage_choice, fields, sent, server_patients>>

----------------------------------------------------------------------------
(* Bounds of the model *)

\* longest list of Patients a lookup by identifier returns
MaxPatients == 2
\* longest list of entries a Coverage lookup returns
MaxEntries == 2

----------------------------------------------------------------------------
(* Text *)

None == <<"\\None">>

Lit(s) == <<s>>

Truthy(x) == x # None /\ x # <<>>

Whitespace == {" ", "\t"}

DigitChars == <<"0", "1", "2", "3", "4", "5", "6", "7", "8", "9">>

UpperChars == <<"A", "B", "C", "D", "E", "F", "G", "H", "I", "J", "K", "L", "M",
                "N", "O", "P", "Q", "R", "S", "T", "U", "V", "W", "X", "Y", "Z">>

LowerChars == <<"a", "b", "c", "d", "e", "f", "g", "h", "i", "j", "k", "l", "m",
                "n", "o", "p", "q", "r", "s", "t", "u", "v", "w", "x", "y", "z">>

RECURSIVE LStrip(_)
LStrip(s) ==
    IF s # <<>> /\ Head(s) \in Whitespace THEN LStrip(Tail(s)) ELSE s

RECURSIVE RStrip(_)
RStrip(s) ==
    IF s # <<>> /\ s[Len(s)] \in Whitespace
    THEN RStrip(SubSeq(s, 1, Len(s) - 1))
    ELSE s

\* str.strip()
Strip(s) == RStrip(LStrip(s))

LowerChar(c) ==
    IF \E i \in 1..Len(UpperChars) : UpperChars[i] = c
    THEN LowerChars[CHOOSE i \in 1..Len(UpperChars) : UpperChars[i] = c]
    ELSE c

UpperChar(c) ==
    IF \E i \in 1..Len(LowerChars) : LowerChars[i] = c
    THEN UpperChars[CHOOSE i \in 1..Len(LowerChars) : LowerChars[i] = c]
    ELSE c

\* str.lower(), str.upper()
Lower(s) == [i \in 1..Len(s) |-> LowerChar(s[i])]

Upper(s) == [i \in 1..Len(s) |-> UpperChar(s[i])]

\* digits outside ASCII, each written as one character named by its code point,
\* with its value: ARABIC-INDIC DIGIT THREE
OtherDigits == [c \in {"U+0663"} |-> 3]

IsAsciiDigit(c) == \E i \in 1..Len(DigitChars) : DigitChars[i] = c

\* str.isdigit() and \d hold of every Unicode decimal digit, not only of 0-9
IsDigitChar(c) == IsAsciiDigit(c) \/ c \in DOMAIN OtherDigits

\* str.isdigit(): non-empty and every character a digit
IsDigit(s) == s # <<>> /\ \A i \in 1..Len(s) : IsDigitChar(s[i])

DigitValue(c) ==
    IF IsAsciiDigit(c) THEN (CHOOSE i \in 1..Len(DigitChars) : DigitChars[i] = c) - 1
    ELSE OtherDigits[c]

RECURSIVE IntOf(_)
IntOf(s) ==
    IF s = <<>> THEN 0
    ELSE 10 * IntOf(SubSeq(s, 1, Len(s) - 1)) + DigitValue(s[Len(s)])

\* str(n) for n >= 0
RECURSIVE Str(_)
Str(n) ==
    IF n < 10 THEN <<DigitChars[n + 1]>>
    ELSE Str(n \div 10) \o <<DigitChars[(n % 10) + 1]>>

\* the sequences over S of length at most n
SeqUpTo(S, n) == UNION {[1..k -> S] : k \in 0..n}

----------------------------------------------------------------------------
(* What the operator may type, and what the server may answer *)

T7 == <<"1", "2", "3", "4", "5", "6", "7">>

T8 == <<"1", "2", "3", "4", "5", "6", "7", "8">>

DniInputs ==
    {T7, T8, SubSeq(T7, 1, 6), T8 \o <<"9">>, SubSeq(T7, 1, 6) \o <<"x">>,
     SubSeq(T7, 1, 6) \o <<"U+0663">>, <<" ">> \o T7, <<>>}

MenuInputs == {<<"1">>, <<" ", "1">>, <<"2">>, <<"3">>, <<"4">>, <<"5">>, <<"6">>, <<>>}

YesNoInputs == {<<"s">>, <<"S">>, <<" ", "s", " ">>, <<"n">>, <<>>}

NameInputs == {<<"P", "e", "r", "e", "z">>, <<" ">>, <<>>}

GenderInputs == {<<"m">>, <<"F">>, <<"M", " ">>, <<"x">>, <<>>}

D1 == <<"2", "0", "2", "4", "-", "0", "1", "-", "1", "5">>

D2 == <<"2", "0", "2", "3", "-", "0", "6", "-", "3", "0">>

BadMonth == <<"2", "0", "2", "4", "-", "1", "3", "-", "0", "1">>

BadDay == <<"2", "0", "2", "3", "-", "0", "2", "-", "2", "9">>

DateInputs == {D1, D2, BadMonth, BadDay, <<"h", "o", "y">>, <<" ">>, <<>>}

PhoneInputs == {<<"+", "5", "4", "1", "1">>, <<"0", "1", "1">>, <<"5">>, <<"a", "b">>, <<>>}

ChoiceInputs == {<<"1">>, <<"2">>, <<" ", "2">>, <<"3">>, <<"4">>, <<"0">>, <<"0", "1">>,
                 <<"x">>, <<" ">>, <<>>}

TypeInputs == {<<"1">>, <<" ", "3">>, <<"4">>, <<"E", "H", "C", "P", "O", "L">>, <<>>}

StatusInputs == {<<"4", " ">>, <<"5">>, <<"a", "c", "t", "i", "v", "e">>, <<>>}

TextInputs == {<<"A", "7">>, <<" ">>, <<>>}

HttpStatuses == {200, 201, 404}

PatientIds == {Lit("p1"), Lit("p2")}

CoverageIds == {Lit("c1"), Lit("c2")}

\* the id the server assigns to a created resource
NewIds == {Lit("n1")}

\* a Patient as parsed from a search entry: only its id is read by the workflow
ServerPatients == [id : PatientIds \cup {None}]

PatientLists == SeqUpTo(ServerPatients, MaxPatients)

\* Coverage.kind values the schema accepts
CoverageKinds == {Lit("insurance"), Lit("self-pay"), Lit("other")}

\* an entry of a Coverage search bundle: whether it has a 'resource' key, the
\* resource's 'kind' (None: the key is missing), whether the rest of the
\* resource satisfies the schema, and the resource's id
BundleEntries ==
    { [hasResource |-> TRUE,  kind |-> Lit("insurance"), schemaOk |-> TRUE,  id |-> Lit("c1")],
      [hasResource |-> TRUE,  kind |-> None,             schemaOk |-> TRUE,  id |-> Lit("c2")],
      [hasResource |-> TRUE,  kind |-> Lit("bogus"),     schemaOk |-> TRUE,  id |-> Lit("c1")],
      [hasResource |-> TRUE,  kind |-> None,             schemaOk |-> FALSE, id |-> Lit("c2")],
      [hasResource |-> FALSE, kind |-> None,             schemaOk |-> TRUE,  id |-> None],
      [hasResource |-> TRUE,  kind |-> Lit("self-pay"),  schemaOk |-> TRUE,  id |-> None] }

EntryLists == SeqUpTo(BundleEntries, MaxEntries)

----------------------------------------------------------------------------
(* base.py: the gateway functions, as functions of the response received *)

NoResponse == [fn |-> "none", status |-> 0, entries |-> <<>>, ret |-> None]

\* send_resource_to_hapi_fhir: the created id on 201, None otherwise
send_resource_to_hapi_fhir(status, id) ==
    IF status = 201 THEN id ELSE None

\* an update that takes 200 and 201 alike for success
edit_resource_accepts_201(status) == status \in {200, 201}

\* edit_resource_in_hapi_fhir: True on 200
edit_resource_in_hapi_fhir(status) == status = 200

\* delete_resource_from_hapi_fhir: True on 200
delete_resource_from_hapi_fhir(status) == status = 200

\* get_resource_from_hapi_fhir: the body on 200, {} otherwise
get_resource_from_hapi_fhir(status, body) ==
    IF status = 200 THEN body ELSE <<>>

\* get_resource_by_identifier: the parsed entries on 200, [] otherwise
get_resource_by_identifier(status, entries) ==
    IF status = 200 THEN entries ELSE <<>>

\* Coverage.model_validate: the schema's verdict on a resource dict
Coverage_model_validate(resource) ==
    resource.schemaOk /\ resource.kind \in CoverageKinds

\* the entry handed to the schema as received, kind not defaulted
default_kind_missing(resource) == resource

\* lines 136-137: if "kind" not in resource: resource['kind'] = 'insurance'
default_kind(resource) ==
    IF resource.kind = None THEN [resource EXCEPT !.kind = Lit("insurance")] ELSE resource

\* the loop body of get_coverage_by_beneficiary: entry['resource'] (KeyError when
\* missing), default of kind, model_validate; any exception skips the entry
RECURSIVE ParseEntries(_)
ParseEntries(entries) ==
    IF entries = <<>> THEN <<>>
    ELSE LET entry == Head(entries)
             rest == ParseEntries(Tail(entries))
             resource == default_kind(entry)
         IN  IF ~entry.hasResource THEN rest
             ELSE IF Coverage_model_validate(resource)
                  THEN <<[id |-> resource.id, kind |-> resource.kind]>> \o rest
                  ELSE rest

get_coverage_by_beneficiary(status, entries) ==
    IF status = 200 THEN ParseEntries(entries) ELSE <<>>

----------------------------------------------------------------------------
(* patient.py and coverage.py: the resource builders *)

\* create_patient_resource: the HumanName is built in a local and never
\* assigned to patient.name
create_patient_resource(family_name, given_name, birth_date, gender, phone) ==
    [ resourceType |-> "Patient",
      id           |-> None,
      identifier   |-> <<>>,
      name         |-> <<>>,
      birthDate    |-> IF Truthy(birth_date) THEN birth_date ELSE None,
      gender       |-> IF Truthy(gender) THEN gender ELSE None,
      telecom      |-> IF Truthy(phone)
                       THEN <<[system |-> Lit("phone"), value |-> phone, use |-> Lit("mobile")]>>
                       ELSE <<>> ]

create_coverage_resource(coverage_type, beneficiary_resource_type, beneficiary_resource_id, status, policy_identifier, coverage_type_display, subscriber_id, start_date, end_date) ==
    [ resourceType |-> "Coverage",
      id           |-> None,
      status       |-> status,
      kind         |-> Lit("insurance"),
      type         |-> [ system  |-> Lit("http://terminology.hl7.org/CodeSystem/v3-ActCode"),
                         code    |-> coverage_type,
                         display |-> IF Truthy(coverage_type_display)
                                     THEN coverage_type_display ELSE None ],
      beneficiary  |-> beneficiary_resource_type \o Lit("/") \o beneficiary_resource_id,
      identifier   |-> IF Truthy(policy_identifier)
                       THEN <<[ system |-> Lit("http://example.org/policy-numbers"),
                                value  |-> policy_identifier ]>>
                       ELSE <<>>,
      subscriberId |-> IF Truthy(subscriber_id) THEN <<subscriber_id>> ELSE <<>>,
      period       |-> IF Truthy(start_date) \/ Truthy(end_date)
                       THEN <<[ start |-> IF Truthy(start_date) THEN start_date ELSE None,
                                end   |-> IF Truthy(end_date) THEN end_date ELSE None ]>>
                       ELSE <<>> ]

NoResource == [resourceType |-> "none"]

----------------------------------------------------------------------------
(* workflow.py: the prompts.  Each returns whether the input is accepted    *)
(* (otherwise the prompt is printed again) and the value returned.          *)

Accept(v) == [ok |-> TRUE, value |-> v]

Retry == [ok |-> FALSE, value |-> None]

\* a prompt that checks the length alone
input_dni_any_characters(s) ==
    IF 7 <= Len(s) /\ Len(s) <= 8 THEN Accept(s) ELSE Retry

input_dni(s) ==
    IF 7 <= Len(s) /\ Len(s) <= 8 /\ IsDigit(s) THEN Accept(s) ELSE Retry

\* s cut at every occurrence of the character sep
RECURSIVE Split(_, _)
Split(s, sep) ==
    IF \E i \in 1..Len(s) : s[i] = sep
    THEN LET i == CHOOSE j \in 1..Len(s) :
                      s[j] = sep /\ \A k \in 1..(j - 1) : s[k] # sep
         IN  <<SubSeq(s, 1, i - 1)>> \o Split(SubSeq(s, i + 1, Len(s)), sep)
    ELSE <<s>>

IsLeap(y) == y % 4 = 0 /\ (y % 100 # 0 \/ y % 400 = 0)

DaysInMonth(y, m) ==
    IF m = 2 THEN (IF IsLeap(y) THEN 29 ELSE 28)
    ELSE IF m \in {4, 6, 9, 11} THEN 30 ELSE 31

\* datetime.strptime(s, "%Y-%m-%d") does not raise ValueError
Strptime(s) ==
    LET parts == Split(s, "-")
    IN  /\ Len(parts) = 3
        /\ Len(parts[1]) = 4 /\ IsDigit(parts[1]) /\ IntOf(parts[1]) >= 1
        /\ Len(parts[2]) \in 1..2 /\ IsDigit(parts[2]) /\ IntOf(parts[2]) \in 1..12
        /\ Len(parts[3]) \in 1..2 /\ IsDigit(parts[3])
        /\ IntOf(parts[3]) \in 1..DaysInMonth(IntOf(parts[1]), IntOf(parts[2]))

input_date(s) ==
    LET date_input == Strip(s)
    IN  IF date_input = <<>> THEN Accept(None)
        ELSE IF Strptime(date_input) THEN Accept(date_input)
        ELSE Retry

input_gender(s) ==
    LET gender_input == Upper(Strip(s))
    IN  IF gender_input = <<"M">> THEN Accept(Lit("male"))
        ELSE IF gender_input = <<"F">> THEN Accept(Lit("female"))
        ELSE IF gender_input = <<>> THEN Accept(None)
        ELSE Retry

input_policy_identifier(s) ==
    LET policy_input == Strip(s)
    IN  Accept(IF policy_input # <<>> THEN policy_input ELSE None)

coverage_types ==
    [ x \in {<<"1">>, <<"2">>, <<"3">>} |->
        IF x = <<"1">> THEN <<Lit("EHCPOL"), Lit("Extended healthcare policy")>>
        ELSE IF x = <<"2">> THEN <<Lit("PUBLICPOL"), Lit("Public healthcare policy")>>
        ELSE <<Lit("DENTPRG"), Lit("Dental program")>> ]

input_coverage_type(s) ==
    LET choice == Strip(s)
    IN  IF choice \in DOMAIN coverage_types THEN Accept(coverage_types[choice]) ELSE Retry

\* re.match(r"^\+?[1-9]\d{1,14}$", s)
PhoneMatch(s) ==
    LET d == IF s # <<>> /\ Head(s) = "+" THEN Tail(s) ELSE s
    IN  /\ Len(d) \in 2..15
        /\ IsDigit(d)
        /\ IsAsciiDigit(d[1]) /\ d[1] # "0"

\* no loop: an input that does not match prints the error and returns None
input_phone(s) ==
    LET phone_input == Strip(s)
    IN  IF phone_input = <<>> \/ PhoneMatch(phone_input)
        THEN Accept(IF phone_input # <<>> THEN phone_input ELSE None)
        ELSE Accept(None)

input_subscriber_id(s) ==
    LET subscriber_input == Strip(s)
    IN  Accept(IF subscriber_input # <<>> THEN subscriber_input ELSE None)

input_non_void(s) ==
    LET value == Strip(s)
    IN  IF value # <<>> THEN Accept(value) ELSE Retry

coverage_status_options ==
    [ x \in {<<"1">>, <<"2">>, <<"3">>, <<"4">>} |->
        IF x = <<"1">> THEN Lit("active")
        ELSE IF x = <<"2">> THEN Lit("cancelled")
        ELSE IF x = <<"3">> THEN Lit("draft")
        ELSE Lit("entered-in-error") ]

\* a status prompt whose loop never ends
input_coverage_status_never_done(s) == Retry

input_coverage_status(s) ==
    LET choice == Strip(s)
    IN  IF choice \in DOMAIN coverage_status_options
        THEN Accept(coverage_status_options[choice]) ELSE Retry

----------------------------------------------------------------------------
(* workflow.py: the state of one menu operation *)

EmptyFields ==
    [ family_name |-> None, given_name |-> None, gender |-> None, birth_date |-> None,
      phone |-> None, coverage_type |-> None,
      coverage_status |-> None, policy_identifier |-> None, subscriber_id |-> None,
      start_date |-> None, end_date |-> None ]

\* a gateway call as the workflow issued it: the function, the resource type, the
\* identifier or id it was given, the resource it was given, whether the
\* function reported success, and whether a lookup returned a non-empty list
Call(fn, rtype, key, res, ok, found) ==
    [fn |-> fn, rtype |-> rtype, key |-> key, res |-> res, ok |-> ok, found |-> found,
     ret |-> None]

Response(fn, status, entries, ret) ==
    [fn |-> fn, status |-> status, entries |-> entries, ret |-> ret]

Asked(prompt, s) == [prompt |-> prompt, text |-> s]

NoInput == Asked("none", None)

Operations ==
    [ x \in {<<"1">>, <<"2">>, <<"3">>, <<"4">>} |->
        IF x = <<"1">> THEN "create_or_edit_patient"
        ELSE IF x = <<"2">> THEN "search_patient_by_dni"
        ELSE IF x = <<"3">> THEN "add_or_edit_patient_coverages"
        ELSE "show_patient_coverages" ]

\* the locals of an operation before its first statement
FreshLocals ==
    /\ calls' = <<>>
    /\ response' = NoResponse
    /\ patient_dni' = None
    /\ existing_resources' = <<>>
    /\ patient_id' = None
    /\ coverage_resources' = <<>>
    /\ edited_coverage_id' = None
    /\ input_choice' = None
    /\ delete_choice' = None
    /\ coverage_choice' = None
    /\ fields' = EmptyFields
    /\ sent' = NoResource
    /\ server_patients' = 0

Init ==
    /\ pc = "menu"
    /\ op = "none"
    /\ asked = NoInput
    /\ rejected = FALSE
    /\ calls = <<>>
    /\ response = NoResponse
    /\ patient_dni = None
    /\ existing_resources = <<>>
    /\ patient_id = None
    /\ coverage_resources = <<>>
    /\ edited_coverage_id = None
    /\ input_choice = None
    /\ delete_choice = None
    /\ coverage_choice = None
    /\ fields = EmptyFields
    /\ sent = NoResource
    /\ server_patients = 0

\* a gateway step: no prompt is answered
NoPrompt ==
    /\ asked' = NoInput
    /\ rejected' = FALSE

\* a prompt that stores its value in fields.<name> and moves on when accepted
Prompt(at, s, r, name, next) ==
    /\ pc = at
    /\ asked' = Asked(at, s)
    /\ rejected' = ~r.ok
    /\ pc' = IF r.ok THEN next ELSE at
    /\ fields' = IF r.ok THEN [fields EXCEPT ![name] = r.value] ELSE fields
    /\ response' = NoResponse
    /\ UNCHANGED <<op, server_patients, coverage_choice, calls, patient_dni, existing_resources, patient_id,
                   coverage_resources, edited_coverage_id, input_choice,
                   delete_choice, sent>>

----------------------------------------------------------------------------
(* main: the menu loop *)

\* lines 379-392
MenuChoice(s) ==
    /\ pc = "menu"
    /\ asked' = Asked("menu", s)
    /\ LET choice == Strip(s)
       IN  IF choice \in DOMAIN Operations
           THEN /\ pc' = "input_dni"
                /\ op' = Operations[choice]
                /\ rejected' = FALSE
           ELSE IF choice = <<"5">>
           THEN /\ pc' = "exit"
                /\ op' = "none"
                /\ rejected' = FALSE
           ELSE /\ pc' = "menu"
                /\ op' = "none"
                /\ rejected' = TRUE
    /\ FreshLocals

\* the operation returned: back to the top of the while loop
Return ==
    /\ pc = "done"
    /\ pc' = "menu"
    /\ op' = "none"
    /\ NoPrompt
    /\ FreshLocals

\* every operation starts with input_dni()
InputDni(s) ==
    /\ pc = "input_dni"
    /\ asked' = Asked("input_dni", s)
    /\ LET r == input_dni(s)
       IN  /\ rejected' = ~r.ok
           /\ pc' = IF r.ok THEN "lookup" ELSE "input_dni"
           /\ patient_dni' = IF r.ok THEN r.value ELSE patient_dni
    /\ response' = NoResponse
    /\ UNCHANGED <<op, server_patients, coverage_choice, calls, existing_resources, patient_id, coverage_resources,
                   edited_coverage_id, input_choice, delete_choice, fields, sent>>

----------------------------------------------------------------------------
(* create_or_edit_patient *)

\* an empty lookup that goes on to the fields, as if line 154 were guarded
on_empty_lookup_creates == "family_name"

\* line 154 with existing_resources empty: existing_resources[0] raises
on_empty_lookup == "crash"

\* the server stores the Patient it answers 201 for
server_after_create(status) ==
    IF status = 201 THEN server_patients + 1 ELSE server_patients

\* lines 147-156 up to the confirmation prompt.  entries are the Patients the
\* server holds under patient_dni; the response shows them when status is 200.  With no match the `if` of line
\* 148 is skipped and line 154 evaluates existing_resources[0]: IndexError,
\* which nothing catches.
PatientLookup(status, entries) ==
    /\ pc = "lookup"
    /\ op = "create_or_edit_patient"
    /\ LET found == get_resource_by_identifier(status, entries)
       IN  /\ existing_resources' = found
           /\ calls' = Append(calls, Call("get_resource_by_identifier", "Patient",
                                          patient_dni, NoResource, status = 200,
                                          found # <<>>))
           /\ response' = Response("get_resource_by_identifier", status, <<>>, None)
           /\ pc' = IF found # <<>> THEN "confirm_edit" ELSE on_empty_lookup
    /\ server_patients' = Len(entries)
    /\ NoPrompt
    /\ UNCHANGED <<op, coverage_choice, patient_dni, patient_id, coverage_resources, edited_coverage_id,
                   input_choice, delete_choice, fields, sent>>

\* a confirmation that only an explicit 'n' declines
edit_declined_only_n(choice) == choice = <<"n">>

\* line 151: if input_choice != 's'
edit_declined(choice) == choice # <<"s">>

\* an edit that goes ahead whether or not the match has an id
missing_server_id_unchecked == FALSE

\* line 154: existing_resources[0].id is None
missing_server_id == existing_resources[1].id = None

\* lines 150-156
ConfirmEdit(s) ==
    /\ pc = "confirm_edit"
    /\ asked' = Asked("confirm_edit", s)
    /\ input_choice' = Lower(Strip(s))
    /\ pc' = IF edit_declined(Lower(Strip(s))) THEN "done"
             ELSE IF missing_server_id THEN "done"
             ELSE "family_name"
    /\ rejected' = FALSE
    /\ response' = NoResponse
    /\ UNCHANGED <<op, server_patients, coverage_choice, calls, patient_dni, existing_resources, patient_id,
                   coverage_resources, edited_coverage_id, delete_choice, fields, sent>>

InputFamilyName(s) ==
    Prompt("family_name", s, input_non_void(s), "family_name", "given_name")

InputGivenName(s) ==
    Prompt("given_name", s, input_non_void(s), "given_name", "gender")

InputGender(s) == Prompt("gender", s, input_gender(s), "gender", "birth_date")

InputBirthDate(s) == Prompt("birth_date", s, input_date(s), "birth_date", "phone")

InputPhone(s) == Prompt("phone", s, input_phone(s), "phone", "persist_patient")

\* an identifier that carries no value
dni_identifier_without_value ==
    [system |-> Lit("http://www.renaper.gob.ar/dni"), value |-> None]

\* lines 171-173
dni_identifier ==
    [system |-> Lit("http://www.renaper.gob.ar/dni"), value |-> patient_dni]

\* lines 164-174
patient_resource ==
    [ create_patient_resource(fields.family_name, fields.given_name, fields.birth_date,
                              fields.gender, fields.phone)
      EXCEPT !.identifier = <<dni_identifier>> ]

\* the id of the last match instead of the first
edited_patient_id_last == existing_resources[Len(existing_resources)].id

\* line 177: patient_resource.id = existing_resources[0].id
edited_patient_id == existing_resources[1].id

\* a persist step that never re-fetches
after_persist_no_refetch(ok) == "done"

\* a persist step that re-fetches whatever the outcome
after_persist_always_refetch(ok) == "refetch"

\* lines 180-186, 191-197, 318-324, 329-336: the re-fetch sits in the success
\* branch; the failure branch prints and the function ends
after_persist(ok) == IF ok THEN "refetch" ELSE "done"

\* lines 176-191: update when a match exists, create otherwise
PersistPatient(status, id) ==
    /\ pc = "persist_patient"
    /\ IF existing_resources # <<>>
       THEN LET resource == [patient_resource EXCEPT !.id = edited_patient_id]
                ok == edit_resource_in_hapi_fhir(status)
            IN  /\ sent' = resource
                /\ calls' = Append(calls, Call("edit_resource_in_hapi_fhir", "Patient",
                                               resource.id, resource, ok, FALSE))
                /\ response' = Response("edit_resource_in_hapi_fhir", status, <<>>, resource.id)
                /\ pc' = after_persist(ok)
                /\ server_patients' = server_patients
       ELSE LET created_id == send_resource_to_hapi_fhir(status, id)
            IN  /\ sent' = patient_resource
                /\ server_patients' = server_after_create(status)
                /\ calls' = Append(calls,
                       [Call("send_resource_to_hapi_fhir", "Patient", None, patient_resource,
                             Truthy(created_id), FALSE) EXCEPT !.ret = created_id])
                /\ response' = Response("send_resource_to_hapi_fhir", status, <<>>, created_id)
                /\ pc' = after_persist(Truthy(created_id))
    /\ NoPrompt
    /\ UNCHANGED <<op, coverage_choice, patient_dni, existing_resources, patient_id,
                   coverage_resources, edited_coverage_id, input_choice, delete_choice,
                   fields>>

\* lines 184-186, 195-197, 322-324, 334-336: the confirmation re-fetch by id
Refetch(status) ==
    /\ pc = "refetch"
    /\ calls' = Append(calls, Call("get_resource_from_hapi_fhir",
                                   IF op = "create_or_edit_patient" THEN "Patient" ELSE "Coverage",
                                   response.ret, NoResource, status = 200, FALSE))
    /\ response' = Response("get_resource_from_hapi_fhir", status, <<>>,
                            get_resource_from_hapi_fhir(status, Lit("body")))
    /\ pc' = "done"
    /\ NoPrompt
    /\ UNCHANGED <<op, server_patients, coverage_choice, patient_dni, existing_resources, patient_id, coverage_resources,
                   edited_coverage_id, input_choice, delete_choice, fields, sent>>

----------------------------------------------------------------------------
(* search_patient_by_dni *)

\* lines 229-238
SearchLookup(status, entries) ==
    /\ pc = "lookup"
    /\ op = "search_patient_by_dni"
    /\ LET resources == get_resource_by_identifier(status, entries)
       IN  /\ existing_resources' = resources
           /\ calls' = Append(calls, Call("get_resource_by_identifier", "Patient",
                                          patient_dni, NoResource, status = 200,
                                          resources # <<>>))
    /\ response' = Response("get_resource_by_identifier", status, <<>>, None)
    /\ pc' = "done"
    /\ NoPrompt
    /\ UNCHANGED <<op, server_patients, coverage_choice, patient_dni, patient_id, coverage_resources, edited_coverage_id,
                   input_choice, delete_choice, fields, sent>>

----------------------------------------------------------------------------
(* add_or_edit_patient_coverages and show_patient_coverages *)

\* the not-found branch without its return
on_patient_not_found_no_return == "coverage_lookup"

\* lines 248-250 and 346-348: where the operation goes when no Patient matches
on_patient_not_found == "done"

\* a resolved patient taken straight to the coverage fields
after_patient_resolved_no_listing == "coverage_type"

\* lines 257-260 and 354-357: the Coverage lookup by beneficiary comes next
after_patient_resolved == "coverage_lookup"

\* the last match taken for the Patient
last_match(patient_resources) == patient_resources[Len(patient_resources)]

\* lines 251 and 349: patient_resource = patient_resources[0]
first_match(patient_resources) == patient_resources[1]

\* lines 247-255 and 345-353: the Patient is the first match, and needs an id
ResolvePatient(status, entries) ==
    /\ pc = "lookup"
    /\ op \in {"add_or_edit_patient_coverages", "show_patient_coverages"}
    /\ LET patient_resources == get_resource_by_identifier(status, entries)
       IN  /\ existing_resources' = patient_resources
           /\ calls' = Append(calls, Call("get_resource_by_identifier", "Patient",
                                          patient_dni, NoResource, status = 200,
                                          patient_resources # <<>>))
           /\ response' = Response("get_resource_by_identifier", status, <<>>, None)
           /\ IF patient_resources = <<>>
              THEN /\ pc' = on_patient_not_found
                   /\ patient_id' = None
              ELSE /\ patient_id' = first_match(patient_resources).id
                   /\ pc' = IF Truthy(first_match(patient_resources).id)
                            THEN after_patient_resolved ELSE "done"
    /\ NoPrompt
    /\ UNCHANGED <<op, server_patients, coverage_choice, patient_dni, coverage_resources,
                   edited_coverage_id, input_choice, delete_choice, fields, sent>>

\* a deletion question put whatever was selected
after_selection_always_asks(id) == "delete_choice"

\* line 285: `if edited_coverage_id:` asks about deletion, else the fields follow
after_selection(id) == IF Truthy(id) THEN "delete_choice" ELSE "coverage_type"

\* a listing that goes on into the coverage fields
after_coverages_shown_edits == "coverage_type"

\* lines 358-364: show_patient_coverages prints what it found and ends
after_coverages_shown == "done"

\* lines 257-262 and 354-364.  patient_resources is not read after this point.
CoverageLookup(status, entries) ==
    /\ pc = "coverage_lookup"
    /\ LET found == get_coverage_by_beneficiary(status, entries)
       IN  /\ coverage_resources' = found
           /\ pc' = IF op = "show_patient_coverages" THEN after_coverages_shown
                    ELSE IF found # <<>> THEN "select_coverage"
                    ELSE after_selection(edited_coverage_id)
           /\ calls' = Append(calls, Call("get_coverage_by_beneficiary", "Coverage",
                                          patient_id, NoResource, status = 200,
                                          found # <<>>))
    /\ response' = Response("get_coverage_by_beneficiary", status, entries, None)
    /\ existing_resources' = <<>>
    /\ NoPrompt
    /\ UNCHANGED <<op, server_patients, coverage_choice, patient_dni, patient_id, edited_coverage_id, input_choice,
                   delete_choice, fields, sent>>

\* the options keyed from 0: str(i) instead of str(i + 1)
OptionsZeroBased(coverages) ==
    [ key \in {Str(i - 1) : i \in 1..Len(coverages)} |->
        coverages[CHOOSE i \in 1..Len(coverages) : Str(i - 1) = key].id ]

\* lines 267-269: {str(i + 1): coverage.id for i, coverage in enumerate(...)}
Options(coverages) ==
    [ key \in {Str(i) : i \in 1..Len(coverages)} |->
        coverages[CHOOSE i \in 1..Len(coverages) : Str(i) = key].id ]

\* lines 274-285, one turn of the while loop; line 285 then asks about deletion
\* only when edited_coverage_id is truthy
SelectCoverage(s) ==
    /\ pc = "select_coverage"
    /\ asked' = Asked("select_coverage", s)
    /\ coverage_choice' = Strip(s)
    /\ LET options == Options(coverage_resources)
           choice == Strip(s)
       IN  IF choice \in DOMAIN options
           THEN /\ edited_coverage_id' = options[choice]
                /\ pc' = after_selection(options[choice])
                /\ rejected' = FALSE
           ELSE IF choice = <<>>
           THEN /\ edited_coverage_id' = edited_coverage_id
                /\ pc' = after_selection(edited_coverage_id)
                /\ rejected' = FALSE
           ELSE /\ edited_coverage_id' = edited_coverage_id
                /\ pc' = "select_coverage"
                /\ rejected' = TRUE
    /\ response' = NoResponse
    /\ UNCHANGED <<op, server_patients, calls, patient_dni, existing_resources, patient_id,
                   coverage_resources, input_choice, delete_choice, fields, sent>>

\* lines 287-288
DeleteChoice(s) ==
    /\ pc = "delete_choice"
    /\ asked' = Asked("delete_choice", s)
    /\ delete_choice' = Lower(Strip(s))
    /\ pc' = IF Lower(Strip(s)) = <<"s">> THEN "delete_coverage" ELSE "coverage_type"
    /\ rejected' = FALSE
    /\ response' = NoResponse
    /\ UNCHANGED <<op, server_patients, coverage_choice, calls, patient_dni, existing_resources, patient_id,
                   coverage_resources, edited_coverage_id, input_choice, fields, sent>>

\* the delete without its return: the operation goes on to collect the fields
after_delete_no_return == "coverage_type"

\* line 293: the return that follows the delete, whatever it reported
after_delete == "done"

\* lines 289-293
DeleteCoverage(status) ==
    /\ pc = "delete_coverage"
    /\ calls' = Append(calls, Call("delete_resource_from_hapi_fhir", "Coverage",
                                   edited_coverage_id, NoResource,
                                   delete_resource_from_hapi_fhir(status), FALSE))
    /\ response' = Response("delete_resource_from_hapi_fhir", status, <<>>, edited_coverage_id)
    /\ pc' = after_delete
    /\ NoPrompt
    /\ UNCHANGED <<op, server_patients, coverage_choice, patient_dni, existing_resources, patient_id, coverage_resources,
                   edited_coverage_id, input_choice, delete_choice, fields, sent>>

InputCoverageType(s) ==
    Prompt("coverage_type", s, input_coverage_type(s), "coverage_type", "coverage_status")

InputCoverageStatus(s) ==
    Prompt("coverage_status", s, input_coverage_status(s), "coverage_status",
           "policy_identifier")

InputPolicyIdentifier(s) ==
    Prompt("policy_identifier", s, input_policy_identifier(s), "policy_identifier",
           "subscriber_id")

InputSubscriberId(s) ==
    Prompt("subscriber_id", s, input_subscriber_id(s), "subscriber_id", "start_date")

InputStartDate(s) == Prompt("start_date", s, input_date(s), "start_date", "end_date")

InputEndDate(s) == Prompt("end_date", s, input_date(s), "end_date", "persist_coverage")

\* lines 301-312
coverage_resource ==
    create_coverage_resource(fields.coverage_type[1], Lit("Patient"), patient_id,
                             fields.coverage_status, fields.policy_identifier,
                             fields.coverage_type[2], fields.subscriber_id,
                             fields.start_date, fields.end_date)

\* a persist step that forgets the edit target and always creates
edit_target_ignored == FALSE

\* line 313: if edited_coverage_id
edit_target_selected == Truthy(edited_coverage_id)

\* lines 313-330: update when an edit target was selected, create otherwise
PersistCoverage(status, id) ==
    /\ pc = "persist_coverage"
    /\ IF edit_target_selected
       THEN LET resource == [coverage_resource EXCEPT !.id = edited_coverage_id]
                ok == edit_resource_in_hapi_fhir(status)
            IN  /\ sent' = resource
                /\ calls' = Append(calls, Call("edit_resource_in_hapi_fhir", "Coverage",
                                               resource.id, resource, ok, FALSE))
                /\ response' = Response("edit_resource_in_hapi_fhir", status, <<>>, resource.id)
                /\ pc' = after_persist(ok)
       ELSE LET created_id == send_resource_to_hapi_fhir(status, id)
            IN  /\ sent' = coverage_resource
                /\ calls' = Append(calls,
                       [Call("send_resource_to_hapi_fhir", "Coverage", None, coverage_resource,
                             Truthy(created_id), FALSE) EXCEPT !.ret = created_id])
                /\ response' = Response("send_resource_to_hapi_fhir", status, <<>>, created_id)
                /\ pc' = after_persist(Truthy(created_id))
    /\ NoPrompt
    /\ UNCHANGED <<op, server_patients, coverage_choice, patient_dni, existing_resources, patient_id, coverage_resources,
                   edited_coverage_id, input_choice, delete_choice, fields>>

----------------------------------------------------------------------------
(* The program *)

Next ==
    \/ \E s \in MenuInputs : MenuChoice(s)
    \/ Return
    \/ \E s \in DniInputs : InputDni(s)
    \/ \E status \in HttpStatuses, entries \in PatientLists : PatientLookup(status, entries)
    \/ \E s \in YesNoInputs : ConfirmEdit(s)
    \/ \E s \in NameInputs : InputFamilyName(s)
    \/ \E s \in NameInputs : InputGivenName(s)
    \/ \E s \in GenderInputs : InputGender(s)
    \/ \E s \in DateInputs : InputBirthDate(s)
    \/ \E s \in PhoneInputs : InputPhone(s)
    \/ \E status \in HttpStatuses, id \in NewIds : PersistPatient(status, id)
    \/ \E status \in HttpStatuses : Refetch(status)
    \/ \E status \in HttpStatuses, entries \in PatientLists : SearchLookup(status, entries)
    \/ \E status \in HttpStatuses, entries \in PatientLists : ResolvePatient(status, entries)
    \/ \E status \in HttpStatuses, entries \in EntryLists : CoverageLookup(status, entries)
    \/ \E s \in ChoiceInputs : SelectCoverage(s)
    \/ \E s \in YesNoInputs : DeleteChoice(s)
    \/ \E status \in HttpStatuses : DeleteCoverage(status)
    \/ \E s \in TypeInputs : InputCoverageType(s)
    \/ \E s \in StatusInputs : InputCoverageStatus(s)
    \/ \E s \in TextInputs : InputPolicyIdentifier(s)
    \/ \E s \in TextInputs : InputSubscriberId(s)
    \/ \E s \in DateInputs : InputStartDate(s)
    \/ \E s \in DateInputs : InputEndDate(s)
    \/ \E status \in HttpStatuses, id \in NewIds : PersistCoverage(status, id)

Spec == Init /\ [][Next]_vars

\* a step that leaves the current position: the operator's answer was accepted,
\* or the gateway call returned
Progress == Next /\ pc' # pc

\* the operator eventually gives a valid answer at each prompt, and every
\* gateway call returns
FairSpec == Spec /\ WF_vars(Progress)

----------------------------------------------------------------------------
(* Vocabulary of the properties *)

Create == "send_resource_to_hapi_fhir"

Update == "edit_resource_in_hapi_fhir"

Delete == "delete_resource_from_hapi_fhir"

Lookup == "get_resource_by_identifier"

LookupCoverages == "get_coverage_by_beneficiary"

\* the positions in calls of the calls of the functions fns
CallsTo(fns) == {i \in 1..Len(calls) : calls[i].fn \in fns}

NoMutation == CallsTo({Create, Update, Delete}) = {}

\* the Patient lookup of the current operation has returned
LookedUp == Len(calls) >= 1 /\ calls[1].fn = Lookup

\* the positions of create_or_edit_patient after line 156
EditingPatient ==
    {"family_name", "given_name", "gender", "birth_date", "phone", "persist_patient",
     "refetch", "done"}

----------------------------------------------------------------------------
(* C1.  create_or_edit_patient, lookup by national id returns an empty      *)
(* list: the operation takes the create branch, so it goes on to collect    *)
(* the fields, and when it ends create was invoked exactly once, with a     *)
(* Patient whose only identifier is the national id entered, and update     *)
(* was never invoked.                                                       *)
C1_EmptyLookupCreates ==
    (op = "create_or_edit_patient" /\ LookedUp /\ ~calls[1].found) =>
        /\ pc \in EditingPatient
        /\ CallsTo({Update}) = {}
        /\ pc = "done" =>
              /\ Cardinality(CallsTo({Create})) = 1
              /\ \A i \in CallsTo({Create}) :
                    /\ Len(calls[i].res.identifier) = 1
                    /\ calls[i].res.identifier[1].value = patient_dni

(* C2.  create_or_edit_patient, lookup returns one or more Patients, the    *)
(* operator confirms, the first match has a server id: update is invoked    *)
(* exactly once by the end of the operation, every update carries the id of *)
(* the first match, and create is never invoked.                            *)
C2_ConfirmedEditUpdatesFirstMatch ==
    (/\ op = "create_or_edit_patient"
     /\ LookedUp /\ calls[1].found
     /\ input_choice = <<"s">>
     /\ existing_resources[1].id # None) =>
        /\ pc \in EditingPatient
        /\ CallsTo({Create}) = {}
        /\ Cardinality(CallsTo({Update})) <= 1
        /\ \A i \in CallsTo({Update}) :
              /\ calls[i].rtype = "Patient"
              /\ calls[i].res.id = existing_resources[1].id
              /\ calls[i].key = existing_resources[1].id
        /\ pc \in {"refetch", "done"} => Cardinality(CallsTo({Update})) = 1

\* an edit of the first of two different matches has been sent
C2_Witness ==
    /\ op = "create_or_edit_patient"
    /\ pc = "done"
    /\ input_choice = <<"s">>
    /\ Len(existing_resources) = 2
    /\ existing_resources[1].id = Lit("p2")
    /\ existing_resources[2].id = Lit("p1")
    /\ CallsTo({Update}) # {}

(* C3.  create_or_edit_patient, a Patient is found and the operator         *)
(* declines (the answer, trimmed and lower-cased, is not 's'): the          *)
(* operation has ended and issued no create, update or delete.              *)
C3_DeclinedEditNoMutation ==
    (/\ op = "create_or_edit_patient"
     /\ LookedUp /\ calls[1].found
     /\ input_choice # None
     /\ input_choice # <<"s">>) =>
        /\ pc = "done"
        /\ NoMutation
        /\ Len(calls) = 1

C3_Witness ==
    /\ op = "create_or_edit_patient"
    /\ asked = Asked("confirm_edit", <<>>)
    /\ existing_resources # <<>>
    /\ existing_resources[1].id # None
    /\ pc = "done"

(* C4.  add_or_edit_patient_coverages, deletion confirmed: the operation    *)
(* goes to the delete call and ends with it; a delete call, successful or   *)
(* not, is the last call of the operation and no create or update is in it. *)
C4_DeleteIsTerminal ==
    /\ delete_choice = <<"s">> => pc \in {"delete_coverage", "done"}
    /\ \A i \in CallsTo({Delete}) :
          /\ i = Len(calls)
          /\ pc = "done"
          /\ CallsTo({Create, Update}) = {}
          /\ delete_choice = <<"s">>

\* a confirmed delete that failed
C4_Witness ==
    /\ op = "add_or_edit_patient_coverages"
    /\ delete_choice = <<"s">>
    /\ pc = "done"
    /\ CallsTo({Delete}) # {}
    /\ ~calls[Len(calls)].ok

C6_LoopEndsOnlyOnExit ==
    pc \in {"exit", "crash"} =>
        /\ asked.prompt = "menu"
        /\ Strip(asked.text) = <<"5">>

(* C7.  The resource built carries exactly the optional parts whose fields  *)
(* were given.  Patient: name iff family or given name, telecom iff phone,  *)
(* birthDate iff birth date, gender iff gender.  Coverage: identifier iff   *)
(* policy identifier, subscriberId iff subscriber id, period iff start or   *)
(* end date.                                                                *)
C7_ExactlyTheGivenParts ==
    /\ sent.resourceType = "Patient" =>
          /\ sent.name # <<>> <=> (Truthy(fields.family_name) \/ Truthy(fields.given_name))
          /\ sent.telecom # <<>> <=> Truthy(fields.phone)
          /\ sent.birthDate # None <=> Truthy(fields.birth_date)
          /\ sent.gender # None <=> Truthy(fields.gender)
    /\ sent.resourceType = "Coverage" =>
          /\ sent.identifier # <<>> <=> Truthy(fields.policy_identifier)
          /\ sent.subscriberId # <<>> <=> Truthy(fields.subscriber_id)
          /\ sent.period # <<>> <=> (Truthy(fields.start_date) \/ Truthy(fields.end_date))

\* s is the decimal numeral of k, as the operator types an index
IsNumeral(s, k) == IsDigit(s) /\ Head(s) # "0" /\ IntOf(s) = k

(* C8.  add_or_edit_patient_coverages with n Coverages listed: the index k  *)
(* (1 <= k <= n) sets the edit target to the id of the k-th listed          *)
(* Coverage; the empty string enters create-new mode with no edit target;   *)
(* any other input is rejected and the selection prompt is asked again.     *)
(* The input is read trimmed of surrounding blanks.                         *)
C8_SelectionByIndex ==
    asked.prompt = "select_coverage" =>
        LET choice == Strip(asked.text)
            n == Len(coverage_resources)
        IN  /\ n >= 1
            /\ \A k \in 1..n : IsNumeral(choice, k) =>
                  /\ edited_coverage_id = coverage_resources[k].id
                  /\ ~rejected
                  /\ pc \in {"delete_choice", "coverage_type"}
            /\ choice = <<>> =>
                  /\ edited_coverage_id = None
                  /\ ~rejected
                  /\ pc = "coverage_type"
            /\ (choice # <<>> /\ ~\E k \in 1..n : IsNumeral(choice, k)) =>
                  /\ edited_coverage_id = None
                  /\ rejected
                  /\ pc = "select_coverage"

\* two Coverages c1, c2 listed and the operator entered 2
C8_Witness ==
    /\ asked.prompt = "select_coverage"
    /\ Strip(asked.text) = <<"2">>
    /\ Len(coverage_resources) = 2
    /\ coverage_resources[1].id = Lit("c1")
    /\ coverage_resources[2].id = Lit("c2")
    /\ edited_coverage_id = Lit("c2")

(* C9.  add_or_edit_patient_coverages and show_patient_coverages, Patient   *)
(* lookup returns no match: the operation has ended, and the lookup is its  *)
(* only gateway call (no Coverage lookup, no create, update or delete).     *)
C9_PatientNotFoundAborts ==
    (/\ op \in {"add_or_edit_patient_coverages", "show_patient_coverages"}
     /\ LookedUp
     /\ ~calls[1].found) =>
        /\ pc = "done"
        /\ Len(calls) = 1
        /\ NoMutation
        /\ CallsTo({LookupCoverages}) = {}

\* the server answered 200 with no entry
C9_Witness ==
    /\ op = "add_or_edit_patient_coverages"
    /\ LookedUp
    /\ ~calls[1].found
    /\ response.fn = Lookup
    /\ response.status = 200

\* a bundle entry that the listing can parse: it has a resource, the rest of the
\* resource fits the schema, and its kind is missing or one the schema accepts
Parseable(entry) ==
    /\ entry.hasResource
    /\ entry.schemaOk
    /\ entry.kind = None \/ entry.kind \in CoverageKinds

\* the position in entries of the j-th parseable entry
NthParseable(entries, j) ==
    CHOOSE i \in 1..Len(entries) :
        /\ Parseable(entries[i])
        /\ Cardinality({m \in 1..i : Parseable(entries[m])}) = j

(* C10.  get_coverage_by_beneficiary, on a 200 response: the list returned  *)
(* holds exactly the parseable entries, in order; an entry without kind is  *)
(* returned with kind "insurance"; the others are skipped; the list is no   *)
(* longer than the list of entries.                                         *)
C10_ListingKeepsParseableEntries ==
    (response.fn = LookupCoverages /\ response.status = 200) =>
        LET entries == response.entries
            n == Cardinality({i \in 1..Len(entries) : Parseable(entries[i])})
        IN  /\ Len(coverage_resources) = n
            /\ Len(coverage_resources) <= Len(entries)
            /\ \A j \in 1..n :
                  LET entry == entries[NthParseable(entries, j)]
                  IN  /\ coverage_resources[j].id = entry.id
                      /\ coverage_resources[j].kind =
                            IF entry.kind = None THEN Lit("insurance") ELSE entry.kind

\* an unparseable entry skipped and an entry without kind listed as insurance
C10_Witness ==
    /\ response.fn = LookupCoverages
    /\ response.status = 200
    /\ Len(response.entries) = 2
    /\ ~Parseable(response.entries[1])
    /\ response.entries[2].kind = None
    /\ Len(coverage_resources) = 1
    /\ coverage_resources[1].kind = Lit("insurance")

(* C11 as claimed.  Each mutating gateway call reports success exactly when *)
(* the response status is 200 or 201.                                       *)
C11_SuccessIff200Or201 ==
    (response.fn \in {Create, Update, Delete}) =>
        (calls[Len(calls)].ok <=> response.status \in {200, 201})

(* C11.  Each mutating gateway call reports success on one status only:     *)
(* create exactly when the status is 201, update and delete exactly when it *)
(* is 200; every other status is reported as failure, and a created id is   *)
(* returned only on success.                                                *)
C11_SuccessIffExpectedStatus ==
    (response.fn \in {Create, Update, Delete}) =>
        /\ calls[Len(calls)].fn = response.fn
        /\ calls[Len(calls)].ok <=>
              \/ response.fn = Create /\ response.status = 201
              \/ response.fn \in {Update, Delete} /\ response.status = 200
        /\ response.fn = Create => (response.ret # None <=> response.status = 201)

\* an update answered 201 and reported as failed
C11_Witness ==
    /\ response.fn = Update
    /\ response.status = 201
    /\ ~calls[Len(calls)].ok
    /\ pc = "done"

Fetch == "get_resource_from_hapi_fhir"

\* the id the server knows the resource of mutating call i under
MutatedId(i) == IF calls[i].fn = Create THEN calls[i].ret ELSE calls[i].key

(* C12 as claimed.  When an operation has ended, every create, update or    *)
(* delete call it issued is followed by a fetch-by-id of the mutated         *)
(* resource.                                                                 *)
C12_RefetchFollowsEveryMutation ==
    pc = "done" =>
        \A i \in CallsTo({Create, Update, Delete}) :
            \E j \in (i + 1)..Len(calls) :
                /\ calls[j].fn = Fetch
                /\ calls[j].rtype = calls[i].rtype

(* C12.  The confirmation re-fetch follows exactly the successful creates   *)
(* and updates: when an operation has ended, every create or update call    *)
(* that reported success is immediately followed by one fetch-by-id of that *)
(* resource (the id create returned, the id update sent), which is the last *)
(* call of the operation; a delete call and a failed create or update are   *)
(* followed by no call at all; and no fetch-by-id is issued otherwise.      *)
C12_RefetchFollowsSuccessfulPersist ==
    pc = "done" =>
        /\ \A i \in CallsTo({Create, Update}) :
              IF calls[i].ok
              THEN /\ Len(calls) = i + 1
                   /\ calls[i + 1].fn = Fetch
                   /\ calls[i + 1].rtype = calls[i].rtype
                   /\ calls[i + 1].key = MutatedId(i)
                   /\ Truthy(MutatedId(i))
              ELSE Len(calls) = i
        /\ \A i \in CallsTo({Delete}) : Len(calls) = i
        /\ \A j \in CallsTo({Fetch}) :
              j > 1 /\ calls[j - 1].fn \in {Create, Update} /\ calls[j - 1].ok

\* a confirmed delete that succeeded and ended the operation with no re-fetch
C12_Witness ==
    /\ pc = "done"
    /\ calls # <<>>
    /\ calls[Len(calls)].fn = Delete
    /\ calls[Len(calls)].ok

(* C13.  A lookup always precedes the mutation: every create, update or     *)
(* delete call of an operation comes after the Patient lookup by the        *)
(* national id entered in that operation has returned, and every Coverage   *)
(* mutation also comes after the Coverage lookup by beneficiary, which      *)
(* itself follows the Patient lookup.                                       *)
C13_LookupPrecedesMutation ==
    \A i \in CallsTo({Create, Update, Delete}) :
        /\ calls[1].fn = Lookup
        /\ calls[1].rtype = "Patient"
        /\ calls[1].key = patient_dni
        /\ i > 1
        /\ calls[i].rtype = "Coverage" =>
              /\ i > 2
              /\ calls[2].fn = LookupCoverages
              /\ calls[2].key = patient_id

\* a Coverage was created, after both lookups
C13_Witness ==
    /\ Len(calls) >= 3
    /\ calls[3].fn = Create
    /\ calls[3].rtype = "Coverage"
    /\ calls[2].fn = LookupCoverages

(* C14.  No retries: an operation issues at most one mutating gateway call, *)
(* and a mutating call that failed is the last gateway call of its          *)
(* operation, which has ended: no retry, no rollback, no re-fetch.          *)
C14_NoRetries ==
    /\ Cardinality(CallsTo({Create, Update, Delete})) <= 1
    /\ \A i \in CallsTo({Create, Update, Delete}) :
          ~calls[i].ok => Len(calls) = i /\ pc = "done"

\* a create that the server refused, and the operation over
C14_Witness ==
    /\ pc = "done"
    /\ calls # <<>>
    /\ calls[Len(calls)].fn = Create
    /\ ~calls[Len(calls)].ok
    /\ response.status = 404

\* the positions of the format-constrained prompts
FormatPrompts ==
    {"input_dni", "gender", "birth_date", "phone", "coverage_type", "coverage_status",
     "start_date", "end_date"}

\* the text typed at a format-constrained prompt violates the prompt's format
Malformed(prompt, text) ==
    LET s == Strip(text)
    IN  IF prompt = "input_dni" THEN ~(Len(text) \in 7..8 /\ IsDigit(text))
        ELSE IF prompt = "gender" THEN Upper(s) \notin {<<"M">>, <<"F">>, <<>>}
        ELSE IF prompt = "phone" THEN s # <<>> /\ ~PhoneMatch(s)
        ELSE IF prompt = "coverage_type" THEN s \notin DOMAIN coverage_types
        ELSE IF prompt = "coverage_status" THEN s \notin DOMAIN coverage_status_options
        ELSE s # <<>> /\ ~Strptime(s)

(* C15 as claimed.  At every format-constrained prompt (national id, date,  *)
(* gender, phone, coverage type, coverage status) an input that violates    *)
(* the format is rejected and the same prompt is issued again, the phone    *)
(* prompt included.                                                         *)
C15_MalformedInputReprompted ==
    (asked.prompt \in FormatPrompts /\ Malformed(asked.prompt, asked.text)) =>
        rejected /\ pc = asked.prompt

\* a string of 7 or 8 characters, each one a digit
SevenOrEightDigits(s) ==
    /\ Len(s) \in {7, 8}
    /\ \A i \in 1..Len(s) : IsDigitChar(s[i])

(* C16.  Every national identifier passed to a gateway lookup is a string   *)
(* of 7 or 8 digits, digit being what str.isdigit takes for one: input_dni  *)
(* accepts exactly the inputs of 7 or 8 digits, unchanged, and on any other *)
(* length or any non-digit character (a blank included) it rejects the      *)
(* input and asks again.                                                    *)
C16_LookupDniIsSevenOrEightDigits ==
    /\ \A i \in CallsTo({Lookup}) :
          calls[i].key = patient_dni /\ SevenOrEightDigits(calls[i].key)
    /\ asked.prompt = "input_dni" =>
          IF SevenOrEightDigits(asked.text)
          THEN ~rejected /\ patient_dni = asked.text /\ pc = "lookup"
          ELSE rejected /\ pc = "input_dni" /\ calls = <<>>

\* a 7-digit national id went to the lookup
C16_Witness ==
    /\ calls # <<>>
    /\ calls[1].fn = Lookup
    /\ calls[1].key = T7

\* the calendar date a YYYY-MM-DD text denotes, as a number that orders dates
DateOrdinal(s) ==
    LET parts == Split(s, "-")
    IN  IntOf(parts[1]) * 10000 + IntOf(parts[2]) * 100 + IntOf(parts[3])

\* the period of Coverage c, when it has one with both ends, runs forward
StartNotAfterEnd(c) ==
    (c.period # <<>> /\ c.period[1].start # None /\ c.period[1].end # None) =>
        DateOrdinal(c.period[1].start) <= DateOrdinal(c.period[1].end)

SelectedIdlessCoverage ==
    /\ op = "add_or_edit_patient_coverages"
    /\ coverage_choice \in DOMAIN Options(coverage_resources)
    /\ Options(coverage_resources)[coverage_choice] = None

ConfirmedEditOfIdlessPatient ==
    /\ op = "create_or_edit_patient"
    /\ existing_resources # <<>>
    /\ input_choice = <<"s">>
    /\ existing_resources[1].id = None

(* C19.  create_or_edit_patient, the lookup returns at least one Patient,   *)
(* the operator confirms the edit and the first match carries no server     *)
(* id: the operation ends there, before any field is collected, and no      *)
(* create and no update call is issued (the lookup is its only call).       *)
C19_IdlessPatientEditAborts ==
    ConfirmedEditOfIdlessPatient =>
        /\ pc = "done"
        /\ fields = EmptyFields
        /\ NoMutation
        /\ Len(calls) = 1 /\ calls[1].fn = Lookup

\* two matches, the first without id, edit confirmed, operation over
C19_Witness ==
    /\ ConfirmedEditOfIdlessPatient
    /\ Len(existing_resources) = 2
    /\ existing_resources[2].id # None
    /\ pc = "done"

Persisted == CallsTo({Create, Update}) # {}

Deleted == CallsTo({Delete}) # {}

\* the operator was asked to confirm a deletion and declined
GateDeclined == delete_choice \notin {None, <<"s">>}

PatientNotFound == LookedUp /\ ~calls[1].found

\* the early end the claim describes: patient not found, or a gate declined
AbortedAsClaimed == NoMutation /\ (PatientNotFound \/ GateDeclined)

\* the Patient lookup found a first match that has no server id
PatientWithoutId == LookedUp /\ calls[1].found /\ ~Truthy(patient_id)

CoverageOperationEnded == op = "add_or_edit_patient_coverages" /\ pc = "done"

CoverageStages ==
    <<"input_dni", "lookup", "coverage_lookup", "select_coverage", "delete_choice",
      "delete_coverage", "coverage_type", "coverage_status", "policy_identifier",
      "subscriber_id", "start_date", "end_date", "persist_coverage", "refetch", "done">>

Stage(p) == CHOOSE i \in 1..Len(CoverageStages) : CoverageStages[i] = p

\* where a coverage operation stands when it has ended
C20_TerminalState ==
    CoverageOperationEnded =>
        /\ LookedUp
        /\ NoMutation <=> (PatientNotFound \/ PatientWithoutId)
        /\ NoMutation => Len(calls) = 1
        /\ ~(Persisted /\ Deleted)
        /\ ~NoMutation =>
              \* PatientResolved, then the listing, then the mode, then the call
              /\ calls[1].found /\ Truthy(patient_id)
              /\ calls[2].fn = LookupCoverages
              /\ IF coverage_resources = <<>>
                 THEN coverage_choice = None
                 ELSE coverage_choice \in DOMAIN Options(coverage_resources) \cup {<<>>}
              /\ CallsTo({Create, Update, Delete}) = {3}
              /\ calls[3].fn = Create <=> ~Truthy(edited_coverage_id)
              /\ calls[3].fn = Delete <=> Truthy(edited_coverage_id) /\ delete_choice = <<"s">>
              /\ calls[3].fn = Update <=> Truthy(edited_coverage_id) /\ GateDeclined

\* a coverage operation only moves forward through its positions
C20_ForwardOnly ==
    (op = "add_or_edit_patient_coverages" /\ op' = op) => Stage(pc') >= Stage(pc)

QueryOperations == {"search_patient_by_dni", "show_patient_coverages"}

(* C21.  search_patient_by_dni and show_patient_coverages are read-only:    *)
(* whatever the operator types and the gateway answers, neither issues a    *)
(* create, update or delete call; their only calls are the Patient lookup   *)
(* and, for the listing, the Coverage lookup by beneficiary.                *)
C21_QueriesAreReadOnly ==
    op \in QueryOperations =>
        /\ NoMutation
        /\ \A i \in 1..Len(calls) : calls[i].fn \in {Lookup, LookupCoverages}
        /\ sent = NoResource
        /\ op = "search_patient_by_dni" => Len(calls) <= 1

\* a listing that found coverages and ended
C21_Witness ==
    /\ op = "show_patient_coverages"
    /\ pc = "done"
    /\ Len(calls) = 2
    /\ coverage_resources # <<>>

(* C22.  Every Patient that create_or_edit_patient passes to create or to   *)
(* update carries exactly one identifier, in the national-id system, and    *)
(* its value is the national id the lookup of the same operation was made   *)
(* with; so an edit leaves the national identifier as it was.               *)
C22_PatientKeepsItsNationalId ==
    \A i \in CallsTo({Create, Update}) :
        calls[i].rtype = "Patient" =>
            /\ calls[1].fn = Lookup
            /\ Len(calls[i].res.identifier) = 1
            /\ calls[i].res.identifier[1].value = calls[1].key
            /\ calls[i].res.identifier[1].value = patient_dni
            /\ calls[i].res.identifier[1].system = Lit("http://www.renaper.gob.ar/dni")
            /\ SevenOrEightDigits(calls[i].res.identifier[1].value)

\* an update of a Patient found by an 8-digit national id
C22_Witness ==
    /\ Len(calls) >= 2
    /\ calls[2].fn = Update
    /\ calls[2].rtype = "Patient"
    /\ calls[1].key = T8

\* the Patients this operation has had the server create
PatientsCreated ==
    {i \in CallsTo({Create}) : calls[i].rtype = "Patient" /\ calls[i].ok}

\* how many Patients the server held under patient_dni when it was looked up
PatientsAtLookup == server_patients - Cardinality(PatientsCreated)

(* C23.  A server that holds at most one Patient under the national id of   *)
(* a create-or-edit-patient operation when the operation looks it up still  *)
(* holds at most one when the operation is over, so uniqueness is kept by   *)
(* any sequence of such operations; and create is issued only when the      *)
(* lookup for that identifier came back empty.                              *)
C23_AtMostOnePatientPerNationalId ==
    (op = "create_or_edit_patient" /\ LookedUp) =>
        /\ PatientsAtLookup <= 1 => server_patients <= 1
        /\ \A i \in CallsTo({Create}) :
              /\ ~calls[1].found
              /\ existing_resources = <<>>
              /\ calls[i].res.identifier[1].value = calls[1].key

\* the one Patient under the national id was updated, and is still the only one
C23_Witness ==
    /\ op = "create_or_edit_patient"
    /\ pc = "done"
    /\ Len(calls) = 3
    /\ calls[2].fn = Update /\ calls[2].ok
    /\ server_patients = 1

(* C24.  Every Coverage that add_or_edit_patient_coverages passes to create *)
(* or update has the beneficiary reference "Patient/<id>", <id> being the   *)
(* server id of the first Patient the lookup of the same operation          *)
(* returned, when creating and when editing an existing Coverage alike.     *)
C24_BeneficiaryIsFirstMatch ==
    op = "add_or_edit_patient_coverages" =>
        /\ pc = "coverage_lookup" =>
              /\ existing_resources # <<>>
              /\ patient_id = existing_resources[1].id
              /\ patient_id \in PatientIds
        /\ \A i \in CallsTo({Create, Update}) :
              /\ calls[i].rtype = "Coverage"
              /\ calls[i].res.beneficiary = <<"Patient", "/">> \o patient_id
              /\ patient_id \in PatientIds
              /\ calls[2].fn = LookupCoverages /\ calls[2].key = patient_id

\* an existing Coverage was updated, with the resolved Patient for beneficiary
C24_Witness ==
    /\ op = "add_or_edit_patient_coverages"
    /\ Len(calls) >= 3
    /\ calls[3].fn = Update
    /\ calls[3].res.beneficiary = <<"Patient", "/", "p2">>

\* the ids of the Coverages the beneficiary lookup returned
ListedCoverageIds == {coverage_resources[k].id : k \in 1..Len(coverage_resources)} \ {None}

\* the beneficiary lookup has returned and no listed Coverage is being edited:
\* it returned nothing, or the operator chose create-new mode
NoEditTarget ==
    /\ Len(calls) >= 2
    /\ calls[2].fn = LookupCoverages
    /\ pc # "select_coverage"
    /\ coverage_resources = <<>> \/ coverage_choice = <<>>

(* C25.  add_or_edit_patient_coverages: the id a delete or an update call   *)
(* carries is the id of one of the Coverages the beneficiary lookup of the  *)
(* same operation returned, the one the operator selected; and when that    *)
(* lookup is empty or the operator chose create-new mode, no delete and no  *)
(* update is issued and the deletion question is not asked.                 *)
C25_EditTargetIsListed ==
    op = "add_or_edit_patient_coverages" =>
        /\ \A i \in CallsTo({Update, Delete}) :
              /\ calls[i].key \in ListedCoverageIds
              /\ calls[i].key = Options(coverage_resources)[coverage_choice]
              /\ calls[i].fn = Update => calls[i].res.id = calls[i].key
        /\ NoEditTarget =>
              /\ CallsTo({Update, Delete}) = {}
              /\ delete_choice = None
              /\ pc \notin {"delete_choice", "delete_coverage"}
              /\ edited_coverage_id = None

\* create-new mode chosen with Coverages listed, and a Coverage created
C25_Witness ==
    /\ op = "add_or_edit_patient_coverages"
    /\ pc = "done"
    /\ coverage_resources # <<>>
    /\ coverage_choice = <<>>
    /\ CallsTo({Create}) = {3}

====
